---- MODULE Spec2Model ----
(***************************************************************************)
(* A model of PyBIND's generic ISC configuration tree (iscconf.py): the    *)
(* containers ISCConf and Clause, the elements Statement and Clause, the   *)
(* label-indexed operations on a container's child list, and the renderer  *)
(* that writes a tree to a text stream or a file.                          *)
(*                                                                         *)
(* Text is modelled as TLA+ strings (sequences of characters), so that the *)
(* rendering is compared byte for byte.  Python values that can be of      *)
(* several types in one place (a label, a comment, a tuple argument that   *)
(* defaults to None, the argument of add_element) are tagged records.      *)
(***************************************************************************)
EXTENDS Integers, Sequences, FiniteSets, TLC

VARIABLES heap, fh, files, handle, result, exc, last

vars == <<heap, fh, files, handle, result, exc, last>>

(***************************************************************************)
(* Bounds of the model.                                                    *)
(***************************************************************************)
\* largest indent passed to write by a caller
MaxIndent == 2
\* largest length a container's child list is grown to
MaxElems == 3

(***************************************************************************)
(* Python values.                                                          *)
(***************************************************************************)
None == [t |-> "None"]
Str(s) == [t |-> "str", v |-> s]
Tuple(s) == [t |-> "tuple", v |-> s]
List(s) == [t |-> "list", v |-> s]
Ref(o) == [t |-> "ref", v |-> o]
PyInt(n) == [t |-> "int", v |-> n]

\* the truth value Python gives a value in `if x:` and `x if x else y`
Truthy(x) ==
  CASE x.t = "None" -> FALSE
    [] x.t = "str" -> x.v /= ""
    [] x.t = "tuple" -> x.v /= <<>>
    [] x.t = "list" -> x.v /= <<>>
    [] x.t = "int" -> x.v /= 0
    [] OTHER -> TRUE

\* '%s' % x
Fmt(x) ==
  CASE x.t = "str" -> x.v
    [] x.t = "None" -> "None"
    [] x.t = "int" -> ToString(x.v)
    [] OTHER -> "?"

\* str.split('\n'): the pieces between the newlines, empty pieces included
RECURSIVE split(_)
split(s) ==
  IF \E i \in 1..Len(s) : SubSeq(s, i, i) = "\n"
  THEN LET i == CHOOSE k \in 1..Len(s) :
                  /\ SubSeq(s, k, k) = "\n"
                  /\ \A j \in 1..(k - 1) : SubSeq(s, j, j) /= "\n"
       IN <<SubSeq(s, 1, i - 1)>> \o split(SubSeq(s, i + 1, Len(s)))
  ELSE <<s>>

(***************************************************************************)
(* Classes.  An object is a record with a field cls; the heap is the       *)
(* sequence of the objects constructed so far, an object's identity being  *)
(* its index.                                                              *)
(***************************************************************************)
\* a check for Statement instead of _Element
IsElementCls_OnlyStatement(c) == c \in {"Statement", "ACL"}

\* isinstance(x, _Element): Statement, Clause and their subclasses
IsElementCls(c) ==
  c \in {"Statement", "Clause", "ACL", "View", "Zone", "Masters", "NamedMasters"}

\* the classes whose write method is Statement.write
IsStatementCls(c) == c \in {"Statement", "ACL"}

\* the classes that have a child list (subclasses of _Conf)
IsConfCls(c) ==
  c \in {"ISCConf", "Clause", "BINDConf", "View", "Zone", "Masters",
         "NamedMasters"}

\* the classes that have write_file (ISCConf and its subclass)
IsISCConfCls(c) == c \in {"ISCConf", "BINDConf"}

\* _Conf.__init__
Conf_init == <<>>

\* _Element.__init__ and Statement.__init__
Statement(label, value, stanza, comment) ==
  [cls |-> "Statement", label |-> label, comment |-> comment,
   value |-> IF Truthy(value) THEN value ELSE Tuple(<<>>),
   stanza |-> IF Truthy(stanza) THEN List(stanza.v) ELSE List(<<>>)]

\* _Conf.__init__, _Element.__init__ and Clause.__init__
Clause(label, additional, comment) ==
  [cls |-> "Clause", label |-> label, comment |-> comment,
   additional |-> additional, elements |-> Conf_init]

\* ISCConf.__init__
ISCConf == [cls |-> "ISCConf", elements |-> Conf_init]

\* ACL.__init__ of the BIND layer: a Statement labelled acl whose value is
\* the quoted name and whose stanza holds the addresses
ACL(acl_name, addresses, comment) ==
  [Statement(Str("acl"), Tuple(<<Str("\"" \o acl_name \o "\"")>>),
             addresses, comment) EXCEPT !.cls = "ACL"]

(***************************************************************************)
(* Rendering.  A stream is a record: the text written so far and the       *)
(* exception that stopped the writing, if any.                             *)
(***************************************************************************)
RECURSIVE tabs(_)
tabs(n) == IF n <= 0 THEN "" ELSE "\t" \o tabs(n - 1)

\* write_indent(fh, indent)
write_indent(s, indent) == s \o tabs(indent)

\* the comment lines written without their indent
RECURSIVE write_comment_NoIndent(_, _, _)
write_comment_NoIndent(s, lines, indent) ==
  IF lines = <<>> THEN s
  ELSE write_comment_NoIndent(s \o "# " \o Head(lines) \o "\n",
                              Tail(lines), indent)

\* the loop of _Element.write over the lines of the comment
RECURSIVE write_comment(_, _, _)
write_comment(s, lines, indent) ==
  IF lines = <<>> THEN s
  ELSE write_comment(write_indent(s, indent) \o "# " \o Head(lines) \o "\n",
                     Tail(lines), indent)

\* _Element.write
Element_write(e, s, indent) ==
  LET s1 == IF Truthy(e.comment)
            THEN write_comment(s, split(e.comment.v), indent)
            ELSE s
  IN write_indent(s1, indent) \o Fmt(e.label)

\* the loops `for item in ...: fh.write(' %s' % item)`
RECURSIVE write_items(_, _)
write_items(s, items) ==
  IF items = <<>> THEN s
  ELSE write_items(s \o " " \o Fmt(Head(items)), Tail(items))

\* the stanza lines written at the statement's own indent
RECURSIVE write_stanza_SameIndent(_, _, _)
write_stanza_SameIndent(s, items, indent) ==
  IF items = <<>> THEN s
  ELSE write_stanza_SameIndent(write_indent(s, indent) \o Fmt(Head(items))
                                 \o ";\n", Tail(items), indent)

\* the loop of Statement.write over the stanza
RECURSIVE write_stanza(_, _, _)
write_stanza(s, items, indent) ==
  IF items = <<>> THEN s
  ELSE write_stanza(write_indent(s, indent + 1) \o Fmt(Head(items)) \o ";\n",
                    Tail(items), indent)

\* a Statement.write that writes the braces also around an empty stanza
Statement_write_AlwaysBraces(e, s, indent) ==
  LET s1 == Element_write(e, s, indent)
      s2 == IF Truthy(e.value) THEN write_items(s1, e.value.v) ELSE s1
  IN write_indent(write_stanza(s2 \o " {\n", e.stanza.v, indent), indent)
       \o "};\n"

\* Statement.write
Statement_write(e, s, indent) ==
  LET s1 == Element_write(e, s, indent)
      s2 == IF Truthy(e.value) THEN write_items(s1, e.value.v) ELSE s1
  IN IF Truthy(e.stanza)
     THEN write_indent(write_stanza(s2 \o " {\n", e.stanza.v, indent), indent)
            \o "};\n"
     ELSE s2 \o ";\n"

RECURSIVE write(_, _, _, _)
RECURSIVE write_elements(_, _, _, _)

\* the loops `for element in self.elements: element.write(fh, ...)`; an
\* exception raised by one element ends the loop
write_elements(h, elems, st, indent) ==
  IF elems = <<>> \/ st.exc /= "none" THEN st
  ELSE write_elements(h, Tail(elems), write(h, Head(elems), st.text, indent),
                      indent)

\* a Clause.write that passes its own indent on to its children
Clause_write_SameIndent(h, o, s, indent) ==
  LET e == h[o]
      s1 == Element_write(e, s, indent)
  IN IF e.additional.t = "None"
     THEN [text |-> s1, exc |-> "TypeError"]
     ELSE LET st == write_elements(h, e.elements,
                      [text |-> write_items(s1, e.additional.v) \o " {\n",
                       exc |-> "none"], indent)
          IN IF st.exc /= "none" THEN st
             ELSE [text |-> write_indent(st.text, indent) \o "};\n",
                   exc |-> "none"]

\* Clause.write; iterating over an additional that is None raises TypeError
\* after the comment and the label were written
Clause_write(h, o, s, indent) ==
  LET e == h[o]
      s1 == Element_write(e, s, indent)
  IN IF e.additional.t = "None"
     THEN [text |-> s1, exc |-> "TypeError"]
     ELSE LET st == write_elements(h, e.elements,
                      [text |-> write_items(s1, e.additional.v) \o " {\n",
                       exc |-> "none"], indent + 1)
          IN IF st.exc /= "none" THEN st
             ELSE [text |-> write_indent(st.text, indent) \o "};\n",
                   exc |-> "none"]

\* element.write(fh, indent), dispatched on the element's class
write(h, o, s, indent) ==
  IF IsStatementCls(h[o].cls)
  THEN [text |-> Statement_write(h[o], s, indent), exc |-> "none"]
  ELSE Clause_write(h, o, s, indent)

\* ISCConf.write_file: open(filename, 'w') truncates, every top-level
\* element is written with the default indent 0
write_file(h, o) ==
  write_elements(h, h[o].elements, [text |-> "", exc |-> "none"], 0)

\* a write_file that closes the file only at its end, without `with`
write_file_handle_NoWith(st) == IF st.exc = "none" THEN "closed" ELSE "open"

\* the file object when write_file is left: the with statement closes it on
\* the normal path and when an element raised; fh.close() after the with
\* statement finds it closed
write_file_handle(st) == "closed"

(***************************************************************************)
(* The operations of _Conf on a child list.                                *)
(***************************************************************************)
\* a get_elements that returns at the first match
RECURSIVE get_elements_First(_, _, _)
get_elements_First(h, elems, label) ==
  IF elems = <<>> THEN <<>>
  ELSE IF h[Head(elems)].label = label THEN <<Head(elems)>>
       ELSE get_elements_First(h, Tail(elems), label)

\* [e for e in elems if e.label == label]
RECURSIVE get_elements(_, _, _)
get_elements(h, elems, label) ==
  IF elems = <<>> THEN <<>>
  ELSE (IF h[Head(elems)].label = label THEN <<Head(elems)>> ELSE <<>>)
         \o get_elements(h, Tail(elems), label)

\* a remove_elements that removes the first match only
RECURSIVE remove_elements_First(_, _, _)
remove_elements_First(h, elems, label) ==
  IF elems = <<>> THEN <<>>
  ELSE IF h[Head(elems)].label = label THEN Tail(elems)
       ELSE <<Head(elems)>> \o remove_elements_First(h, Tail(elems), label)

\* [e for e in elems if e.label != label]
RECURSIVE remove_elements(_, _, _)
remove_elements(h, elems, label) ==
  IF elems = <<>> THEN <<>>
  ELSE (IF h[Head(elems)].label /= label THEN <<Head(elems)>> ELSE <<>>)
         \o remove_elements(h, Tail(elems), label)

\* isinstance(element, _Element) in add_element
isinstance_Element(h, x) == x.t = "ref" /\ IsElementCls(h[x.v].cls)

\* an add_element that inserts at the front
add_element_Front(h, elems, x) ==
  IF x.t = "ref" /\ IsElementCls(h[x.v].cls) THEN <<x.v>> \o elems ELSE elems

\* the child list add_element leaves behind
add_element(h, elems, x) ==
  IF isinstance_Element(h, x) THEN Append(elems, x.v) ELSE elems

(***************************************************************************)
(* The BIND layer (pybind/bindconf.py).  A method that constructs objects  *)
(* or changes a child list is an operator from the heap before the call to *)
(* the outcome of the call: the heap after it and the exception raised.    *)
(***************************************************************************)
Returned(h) == [heap |-> h, exc |-> "none"]
Raised(h, e) == [heap |-> h, exc |-> e]

\* self.remove_elements(label) on the object c
self_remove_elements(h, c, label) ==
  [h EXCEPT ![c].elements = remove_elements(h, @, label)]

\* self.add_element(x) on the object c
self_add_element(h, c, x) ==
  IF isinstance_Element(h, x)
  THEN Returned([h EXCEPT ![c].elements = add_element(h, @, x)])
  ELSE Raised(h, "TypeError")

\* stmt = iscconf.Statement(...); self.add_element(stmt)
add_new_element(h, c, stmt) ==
  self_add_element(Append(h, stmt), c, Ref(Len(h) + 1))

\* isinstance(x, C) for the classes of the BIND layer, none of which has a
\* subclass
isinstance(h, x, C) == x.t = "ref" /\ h[x.v].cls = C

\* BINDConf.__init__
BINDConf == [cls |-> "BINDConf", elements |-> Conf_init]

\* NamedMasters.__init__
NamedMasters(masters_name, port, comment) ==
  [Clause(Str("masters"),
          Tuple(<<masters_name>>
                  \o (IF Truthy(port) THEN <<Str("port"), port>> ELSE <<>>)),
          comment) EXCEPT !.cls = "NamedMasters"]

\* Masters.__init__: without a port the additional is None
Masters(port, comment) ==
  [Clause(Str("masters"),
          IF Truthy(port) THEN Tuple(<<Str("port"), port>>) ELSE None,
          comment) EXCEPT !.cls = "Masters"]

\* View.__init__
View(view_name, class_, comment) ==
  [Clause(Str("view"), Tuple(<<Str("\"" \o Fmt(view_name) \o "\""), class_>>),
          comment) EXCEPT !.cls = "View"]

\* an add_view that attaches whatever add_element accepts
add_view_NoCheck(h, c, view) == self_add_element(h, c, view)

\* BINDConf.add_acl
add_acl(h, c, acl) ==
  IF ~isinstance(h, acl, "ACL") THEN Raised(h, "TypeError")
  ELSE self_add_element(h, c, acl)

\* BINDConf.add_named_masters
add_named_masters(h, c, named_masters) ==
  IF ~isinstance(h, named_masters, "NamedMasters") THEN Raised(h, "TypeError")
  ELSE self_add_element(h, c, named_masters)

\* BINDConf.add_view
add_view(h, c, view) ==
  IF ~isinstance(h, view, "View") THEN Raised(h, "TypeError")
  ELSE self_add_element(h, c, view)

\* View.add_zone
add_zone(h, c, zone) ==
  IF ~isinstance(h, zone, "Zone") THEN Raised(h, "TypeError")
  ELSE self_add_element(h, c, zone)

\* View.set_match_destinations(*addresses)
set_match_destinations(h, c, addresses) ==
  add_new_element(self_remove_elements(h, c, Str("match-destinations")), c,
                  Statement(Str("match-destinations"), None, addresses, None))

\* a set_type that does not remove the statement it replaces
set_type_NoRemove(h, c, type_) ==
  add_new_element(h, c,
                  Statement(Str("type"), Tuple(<<Str(Fmt(type_))>>), None, None))

\* Zone.set_type
set_type(h, c, type_) ==
  add_new_element(self_remove_elements(h, c, Str("type")), c,
                  Statement(Str("type"), Tuple(<<Str(Fmt(type_))>>), None, None))

\* Zone.set_file
set_file(h, c, file_) ==
  add_new_element(self_remove_elements(h, c, Str("file")), c,
                  Statement(Str("file"),
                            Tuple(<<Str("\"" \o Fmt(file_) \o "\"")>>),
                            None, None))

\* Zone.set_allow_update(*addresses)
set_allow_update(h, c, addresses) ==
  add_new_element(self_remove_elements(h, c, Str("allow-update")), c,
                  Statement(Str("allow-update"), None, addresses, None))

\* Zone.set_masters: the argument's class is not checked here
set_masters(h, c, masters) ==
  self_add_element(self_remove_elements(h, c, Str("masters")), c, masters)

\* Zone.__init__: the clause, then set_type and set_file with the arguments
\* as they are, None included
Zone(h, zone_name, type_, file_, class_, comment) ==
  LET h0 == Append(h, [Clause(Str("zone"),
                              Tuple(<<Str("\"" \o Fmt(zone_name) \o "\""),
                                      class_>>),
                              comment) EXCEPT !.cls = "Zone"])
      z == Len(h0)
  IN set_file(set_type(h0, z, type_).heap, z, file_)

(***************************************************************************)
(* ipaddr.IPAddress, the address parser of the ipaddr library, as far as   *)
(* the BIND layer depends on it: a string in dotted-quad form is a version *)
(* 4 address, a string of hexadecimal groups and colons is a version 6     *)
(* address, and anything else raises ValueError.  str() of the address of  *)
(* a string in canonical form is that string.                              *)
(***************************************************************************)
\* s.split(sep)
RECURSIVE fields(_, _)
fields(s, sep) ==
  IF \E i \in 1..Len(s) : SubSeq(s, i, i) = sep
  THEN LET i == CHOOSE j \in 1..Len(s) :
                  /\ SubSeq(s, j, j) = sep
                  /\ \A k \in 1..(j - 1) : SubSeq(s, k, k) /= sep
       IN <<SubSeq(s, 1, i - 1)>> \o fields(SubSeq(s, i + 1, Len(s)), sep)
  ELSE <<s>>

\* the characters of s are all among those of alphabet
Among(s, alphabet) ==
  \A i \in 1..Len(s) : \E j \in 1..Len(alphabet) :
    SubSeq(s, i, i) = SubSeq(alphabet, j, j)

\* int(s) of a string of decimal digits
RECURSIVE int(_)
int(s) ==
  IF s = "" THEN 0
  ELSE int(SubSeq(s, 1, Len(s) - 1)) * 10
         + (CHOOSE d \in 0..9 : ToString(d) = SubSeq(s, Len(s), Len(s)))

IsIPv4(s) ==
  LET f == fields(s, ".")
  IN /\ Len(f) = 4
     /\ \A i \in 1..4 : /\ Len(f[i]) \in 1..3
                        /\ Among(f[i], "0123456789")
                        /\ int(f[i]) <= 255

IsIPv6(s) ==
  /\ Len(fields(s, ":")) \in 3..8
  /\ Among(s, "0123456789abcdefABCDEF:")

IPAddress(ip) ==
  IF ip.t = "str" /\ IsIPv4(ip.v)
  THEN [exc |-> "none", version |-> 4, str |-> ip.v]
  ELSE IF ip.t = "str" /\ IsIPv6(ip.v)
       THEN [exc |-> "none", version |-> 6, str |-> ip.v]
       ELSE [exc |-> "ValueError", version |-> 0, str |-> ""]

\* the statement both source setters build
source_statement(label, ip, port) ==
  Statement(label,
            IF Truthy(port) THEN Tuple(<<ip, Str("port"), port>>)
            ELSE Tuple(<<ip>>),
            None, None)

\* a set_notify_source that removes the version 4 statement before it looks
\* at the address
set_notify_source_RemoveFirst(h, c, ip, port) ==
  LET a == IPAddress(ip)
      h1 == self_remove_elements(h, c, Str("notify-source"))
      label == IF a.version = 4 THEN Str("notify-source")
               ELSE Str("notify-source-v6")
  IN IF a.exc /= "none" THEN Raised(h1, a.exc)
     ELSE add_new_element(self_remove_elements(h1, c, label), c,
                          source_statement(label, ip, port))

\* _OptionsAndViewAndZone.set_notify_source
set_notify_source(h, c, ip, port) ==
  LET a == IPAddress(ip)
      label == IF a.version = 4 THEN Str("notify-source")
               ELSE Str("notify-source-v6")
  IN IF a.exc /= "none" THEN Raised(h, a.exc)
     ELSE add_new_element(self_remove_elements(h, c, label), c,
                          source_statement(label, ip, port))

\* a set_transfer_source that removes the statements of both versions
set_transfer_source_BothVersions(h, c, ip, port) ==
  LET a == IPAddress(ip)
      label == IF a.version = 4 THEN Str("transfer-source")
               ELSE Str("transfer-source-v6")
      h1 == self_remove_elements(
              self_remove_elements(h, c, Str("transfer-source")),
              c, Str("transfer-source-v6"))
  IN IF a.exc /= "none" THEN Raised(h, a.exc)
     ELSE add_new_element(h1, c, source_statement(label, ip, port))

\* _OptionsAndViewAndZone.set_transfer_source
set_transfer_source(h, c, ip, port) ==
  LET a == IPAddress(ip)
      label == IF a.version = 4 THEN Str("transfer-source")
               ELSE Str("transfer-source-v6")
  IN IF a.exc /= "none" THEN Raised(h, a.exc)
     ELSE add_new_element(self_remove_elements(h, c, label), c,
                          source_statement(label, ip, port))

\* _Masters.add_masters_name
add_masters_name(h, c, masters_name) ==
  add_new_element(h, c, Statement(masters_name, None, None, None))

\* _Masters.add_master
add_master(h, c, master, port, key) ==
  LET ip == IPAddress(master)
  IN IF ip.exc /= "none" THEN Raised(h, ip.exc)
     ELSE add_new_element(h, c,
            Statement(Str(ip.str),
                      Tuple((IF Truthy(port) THEN <<Str("port"), port>>
                             ELSE <<>>)
                            \o (IF Truthy(key)
                                THEN <<Str("key"),
                                       Str("\"" \o Fmt(key) \o "\"")>>
                                ELSE <<>>)),
                      None, None))

(***************************************************************************)
(* State.                                                                  *)
(*   heap    the objects constructed so far                                *)
(*   fh      the text of the stream the latest call wrote to with write    *)
(*   files   the file system: path -> None (no file) or Str(content)       *)
(*   handle  the file object of the latest write_file call: "none" before  *)
(*           the first call, then "open" or "closed"                       *)
(*   result  the list the latest call returned, <<>> if it returned none    *)
(*   exc     the exception the latest call raised, or "none"               *)
(*   last    the latest call: operation, receiver, argument, indent, and   *)
(*           what the claims need of the history before it                 *)
(***************************************************************************)
Paths == {"named.conf"}

NoCall == [op |-> "init", self |-> 0, arg |-> None, indent |-> 0,
           pre |-> <<>>, rep |-> 0, follows |-> "", added |-> 0]

\* the record of a call: pre is the heap before the call; rep is 2 when the
\* call before it was the same call; follows names the call before a
\* get_elements call when that was a remove_elements call with the same
\* receiver and label, or a successful add_element call on the same receiver
\* of an element with that label, which added is then
Call(op, self, arg, indent) ==
  [op |-> op, self |-> self, arg |-> arg, indent |-> indent, pre |-> heap,
   rep |-> IF last.op = op /\ last.self = self /\ last.arg = arg
              /\ last.indent = indent
           THEN 2 ELSE 1,
   follows |->
     IF op = "get_elements" /\ last.self = self
     THEN IF last.op = "remove_elements" /\ last.arg = arg
          THEN "remove_elements"
          ELSE IF last.op = "add_element" /\ exc = "none"
                  /\ heap[last.arg.v].label = arg
               THEN "add_element" ELSE ""
     ELSE "",
   added |->
     IF op = "get_elements" /\ last.self = self /\ last.op = "add_element"
        /\ exc = "none" /\ heap[last.arg.v].label = arg
     THEN last.arg.v ELSE 0]

Objs == 1..Len(heap)
Elements == {o \in Objs : IsElementCls(heap[o].cls)}
Confs == {o \in Objs : IsConfCls(heap[o].cls)}

(***************************************************************************)
(* Rendering: element.write(fh, indent) on a fresh stream, and             *)
(* conf.write_file(path).                                                  *)
(***************************************************************************)
\* a write that consumes the comment it has written
Write_DropsComment(o, indent) ==
  /\ o \in Elements
  /\ LET st == write(heap, o, "", indent)
     IN /\ fh' = st.text
        /\ exc' = st.exc
  /\ heap' = [heap EXCEPT ![o].comment = None]
  /\ result' = <<>>
  /\ last' = Call("write", o, None, indent)
  /\ UNCHANGED <<files, handle>>

Write(o, indent) ==
  /\ o \in Elements
  /\ LET st == write(heap, o, "", indent)
     IN /\ fh' = st.text
        /\ exc' = st.exc
  /\ result' = <<>>
  /\ last' = Call("write", o, None, indent)
  /\ UNCHANGED <<heap, files, handle>>

\* a write_file that opens the file for appending
WriteFile_Append(o, p) ==
  /\ IsISCConfCls(heap[o].cls)
  /\ LET st == write_file(heap, o)
     IN /\ files' = [files EXCEPT ![p] = Str(@.v \o st.text)]
        /\ handle' = write_file_handle(st)
        /\ exc' = st.exc
  /\ fh' = ""
  /\ result' = <<>>
  /\ last' = Call("write_file", o, Str(p), 0)
  /\ UNCHANGED heap

WriteFile(o, p) ==
  /\ IsISCConfCls(heap[o].cls)
  /\ LET st == write_file(heap, o)
     IN /\ files' = [files EXCEPT ![p] = Str(st.text)]
        /\ handle' = write_file_handle(st)
        /\ exc' = st.exc
  /\ fh' = ""
  /\ result' = <<>>
  /\ last' = Call("write_file", o, Str(p), 0)
  /\ UNCHANGED heap

(***************************************************************************)
(* The container specification: a configuration and three elements, which *)
(* the client attaches to and removes from the configuration and the       *)
(* clause in any order.                                                    *)
(***************************************************************************)
Labels == {Str("type"), Str("zone")}

\* what a client passes to add_element: an object, or a plain string
Args == {Ref(o) : o \in Objs} \cup {Str("type")}

\* the client has constructed a configuration, the statement  type master,
\* a zone clause and a statement labelled like the clause
Init ==
  /\ heap = << ISCConf,
               Statement(Str("type"), Tuple(<<Str("master")>>), None, None),
               Clause(Str("zone"), Tuple(<<Str("\"example.com.\"")>>), None),
               Statement(Str("zone"), None, None, None) >>
  /\ fh = ""
  /\ files = [p \in Paths |-> None]
  /\ handle = "none"
  /\ result = <<>>
  /\ exc = "none"
  /\ last = NoCall

\* _Conf.add_element
AddElement(c, x) ==
  /\ c \in Confs
  /\ Len(heap[c].elements) < MaxElems
  /\ heap' = [heap EXCEPT ![c].elements = add_element(heap, @, x)]
  /\ exc' = IF isinstance_Element(heap, x) THEN "none" ELSE "TypeError"
  /\ fh' = ""
  /\ result' = <<>>
  /\ last' = Call("add_element", c, x, 0)
  /\ UNCHANGED <<files, handle>>

\* _Conf.get_elements
GetElements(c, label) ==
  /\ c \in Confs
  /\ result' = get_elements(heap, heap[c].elements, label)
  /\ exc' = "none"
  /\ fh' = ""
  /\ last' = Call("get_elements", c, label, 0)
  /\ UNCHANGED <<heap, files, handle>>

\* _Conf.remove_elements
RemoveElements(c, label) ==
  /\ c \in Confs
  /\ heap' = [heap EXCEPT ![c].elements = remove_elements(heap, @, label)]
  /\ exc' = "none"
  /\ fh' = ""
  /\ result' = <<>>
  /\ last' = Call("remove_elements", c, label, 0)
  /\ UNCHANGED <<files, handle>>

Next ==
  \/ \E c \in Objs, x \in Args : AddElement(c, x)
  \/ \E c \in Objs, l \in Labels : GetElements(c, l)
  \/ \E c \in Objs, l \in Labels : RemoveElements(c, l)

Spec == Init /\ [][Next]_vars

(***************************************************************************)
(* The rendering specification: the renderer applied to trees built by the *)
(* constructors and add_element, the constructors' arguments drawn from    *)
(* the sets below.                                                         *)
(*   1  the configuration                                                  *)
(*   2  a Statement or ACL with drawn label, value, stanza and comment     *)
(*   3  the clause  view "example_view" IN                                 *)
(*   4  a zone clause with drawn additional and comment                    *)
(*   5  the statement  include "x", preceded by a comment                  *)
(***************************************************************************)
Values == {None, Tuple(<<Str("master")>>), Tuple(<<Str("a"), Str("b")>>)}
Stanzas == {None, Tuple(<<Str("none")>>),
            Tuple(<<Str("10.1.1.1"), Str("10.1.1.2")>>)}
Comments == {None, Str(""), Str("This is a\nmulti-line comment")}
Additionals == {Tuple(<<>>), Tuple(<<Str("\"example.com.\""), Str("IN")>>)}

StmtInputs ==
  {Statement(Str("type"), v, None, c) : v \in Values, c \in Comments}
    \cup {Statement(Str("type"), Tuple(<<Str("master")>>), z, c) :
            z \in Stanzas, c \in Comments}
    \cup {Statement(Str("allow-update"), None, z, None) : z \in Stanzas}
    \cup {ACL("example_acl", z, c) : z \in Stanzas \ {None}, c \in Comments}

ClauseInputs ==
  {Clause(Str("zone"), a, c) : a \in Additionals,
                               c \in {None, Str("example.com zone\n")}}

\* the child lists of the configuration, the view and the zone
Shapes == { <<<<>>, <<>>, <<>>>>,
            <<<<4>>, <<>>, <<2>>>>,
            <<<<4, 5>>, <<>>, <<2>>>>,
            <<<<3>>, <<4>>, <<2>>>>,
            <<<<5, 3>>, <<4>>, <<>>>>,
            <<<<3>>, <<4>>, <<5, 2>>>> }

InitWrite ==
  /\ \E s \in StmtInputs, z \in ClauseInputs, sh \in Shapes :
       heap = << [ISCConf EXCEPT !.elements = sh[1]],
                 s,
                 [Clause(Str("view"),
                         Tuple(<<Str("\"example_view\""), Str("IN")>>), None)
                    EXCEPT !.elements = sh[2]],
                 [z EXCEPT !.elements = sh[3]],
                 Statement(Str("include"), Tuple(<<Str("\"x\"")>>), None,
                           Str("local")) >>
  /\ fh = ""
  /\ files = [p \in Paths |-> Str("old;\n")]
  /\ handle = "none"
  /\ result = <<>>
  /\ exc = "none"
  /\ last = NoCall

NextWrite ==
  \/ \E o \in Objs, n \in 0..MaxIndent : Write(o, n)
  \/ \E o \in Objs, p \in Paths : WriteFile(o, p)

SpecWrite == InitWrite /\ [][NextWrite]_vars

(***************************************************************************)
(* The output grammar of the specification, stated on the text alone.      *)
(***************************************************************************)
\* n tab characters
Indent(n) == SubSeq("\t\t\t\t\t\t\t\t", 1, n)

\* the positions of the newlines of a text
NewlinesOf(s) == {i \in 1..Len(s) : SubSeq(s, i, i) = "\n"}

\* the k-th smallest member of a set of numbers
Kth(S, k) == CHOOSE x \in S : Cardinality({y \in S : y < x}) = k - 1

\* the k-th of the pieces the newlines cut a text into
Piece(s, k) ==
  LET P == NewlinesOf(s) \cup {0, Len(s) + 1}
  IN SubSeq(s, Kth(P, k) + 1, Kth(P, k + 1) - 1)

\* how often a character occurs in a text
Occurrences(s, ch) == Cardinality({i \in 1..Len(s) : SubSeq(s, i, i) = ch})

\* the concatenation of f[1], ..., f[n]
RECURSIVE Concat(_, _)
Concat(f, n) == IF n = 0 THEN "" ELSE Concat(f, n - 1) \o f[n]

\* ' ' + token for each token
Tokens(items) == Concat([i \in 1..Len(items) |-> " " \o items[i].v], Len(items))

HasComment(c) == c /= None /\ c /= Str("")

\* one line  <indent-tabs># <line>\n  per line of the comment
CommentLines(c, n) ==
  IF HasComment(c)
  THEN Concat([k \in 1..(Cardinality(NewlinesOf(c.v)) + 1) |->
                 Indent(n) \o "# " \o Piece(c.v, k) \o "\n"],
              Cardinality(NewlinesOf(c.v)) + 1)
  ELSE ""

\* the text that follows the first k characters
After(s, k) == SubSeq(s, k + 1, Len(s))

\* the latest call was element.write on a Statement / on a Clause
WroteStatement == last.op = "write" /\ IsStatementCls(heap[last.self].cls)
WroteClause == last.op = "write" /\ heap[last.self].cls = "Clause"

\* C1: a Statement with an empty stanza is written, after its comment lines,
\* as indent tabs, the label, ' ' + token for every value token, ';' and one
\* newline, without a brace
C1_StatementLine ==
  (WroteStatement /\ heap[last.self].stanza.v = <<>>) =>
    LET e == heap[last.self]
        own == After(fh, Len(CommentLines(e.comment, last.indent)))
    IN /\ exc = "none"
       /\ fh = CommentLines(e.comment, last.indent) \o Indent(last.indent)
                 \o e.label.v \o Tokens(e.value.v) \o ";\n"
       /\ Occurrences(own, "{") = 0
       /\ Occurrences(own, "}") = 0
       /\ Occurrences(own, "\n") = 1

\* Scenario A: type master at indent 1
C1_Witness ==
  /\ WroteStatement
  /\ heap[last.self] = Statement(Str("type"), Tuple(<<Str("master")>>), None, None)
  /\ last.indent = 1
  /\ fh = "\ttype master;\n"

\* C2: a Statement with a non-empty stanza is written as the opening line
\* with the value tokens and ' {', one line of indent+1 tabs + token + ';'
\* per stanza token, and indent tabs + '};'
C2_StatementStanza ==
  (WroteStatement /\ heap[last.self].stanza.v /= <<>>) =>
    LET e == heap[last.self]
        n == last.indent
        z == e.stanza.v
        own == After(fh, Len(CommentLines(e.comment, n)))
    IN /\ exc = "none"
       /\ fh = CommentLines(e.comment, n) \o Indent(n) \o e.label.v
                 \o Tokens(e.value.v) \o " {\n"
                 \o Concat([i \in 1..Len(z) |->
                              Indent(n + 1) \o z[i].v \o ";\n"], Len(z))
                 \o Indent(n) \o "};\n"
       /\ Occurrences(own, "{") = 1
       /\ Occurrences(own, "}") = 1
       /\ Occurrences(own, ";") = Len(z) + 1
       /\ Occurrences(own, "\n") = Len(z) + 2

\* an ACL with two addresses, written at indent 1
C2_Witness ==
  /\ WroteStatement
  /\ heap[last.self].cls = "ACL"
  /\ last.indent = 1
  /\ fh = "\tacl \"example_acl\" {\n\t\t10.1.1.1;\n\t\t10.1.1.2;\n\t};\n"

\* the renderings of the elements of a child list at one indent, in order
Renderings(elems, n) ==
  Concat([i \in 1..Len(elems) |-> write(heap, elems[i], "", n).text], Len(elems))

\* C3: a Clause is written as the opening line with the additional tokens
\* and ' {', its children in order at indent+1, and indent tabs + '};',
\* which is the only line '};' at the clause's own indent
C3_ClauseBlock ==
  WroteClause =>
    LET e == heap[last.self]
        n == last.indent
    IN /\ exc = "none"
       /\ fh = CommentLines(e.comment, n) \o Indent(n) \o e.label.v
                 \o Tokens(e.additional.v) \o " {\n"
                 \o Renderings(e.elements, n + 1)
                 \o Indent(n) \o "};\n"
       /\ Cardinality({k \in 1..Cardinality(NewlinesOf(fh)) :
                         Piece(fh, k) = Indent(n) \o "};"}) = 1

\* a view holding the zone of Scenario C: the statement at depth 2 has two tabs
C3_Witness ==
  /\ WroteClause
  /\ last.indent = 0
  /\ fh = "view \"example_view\" IN {\n\tzone \"example.com.\" IN {\n\t\ttype master;\n\t};\n};\n"

\* C9: the comment of an element is written before the element's own first
\* line, one line of indent tabs + '# ' + text per line of the comment, and
\* nothing is written for an element without a comment
C9_CommentLines ==
  last.op = "write" =>
    LET e == heap[last.self]
        n == last.indent
        c == CommentLines(e.comment, n)
        own == Indent(n) \o e.label.v
    IN /\ SubSeq(fh, 1, Len(c)) = c
       /\ SubSeq(fh, Len(c) + 1, Len(c) + Len(own)) = own
       /\ Occurrences(c, "\n") =
            IF HasComment(e.comment)
            THEN Cardinality(NewlinesOf(e.comment.v)) + 1 ELSE 0
       /\ WroteStatement => Occurrences(fh, "#") = Occurrences(c, "#")

C9_Witness ==
  /\ WroteStatement
  /\ last.indent = 2
  /\ fh = "\t\t# This is a\n\t\t# multi-line comment\n\t\ttype master;\n"

C10_FileContent ==
  last.op = "write_file" =>
    /\ exc = "none"
    /\ files[last.arg.v] = Str(Renderings(heap[last.self].elements, 0))

\* Scenario D, written twice to a file that held other text before
C10_Witness ==
  /\ last.op = "write_file"
  /\ last.rep = 2
  /\ files[last.arg.v] = Str("zone \"example.com.\" IN {\n\ttype master;\n};\n")

(***************************************************************************)
(* The container operations.                                               *)
(***************************************************************************)
\* the receiver's child list before and after the latest call
Before == last.pre[last.self].elements
Now == heap[last.self].elements

\* the child list of every container other than the receiver is what it was
OthersUntouched ==
  \A o \in Objs : o /= last.self => heap[o] = last.pre[o]

\* the entries of a child list at the positions in P, in their order
Selected(elems, P) == [k \in 1..Cardinality(P) |-> elems[Kth(P, k)]]

\* C4: add_element of something that is not a Statement or Clause raises a
\* type error and leaves the child list as it was; add_element of a
\* Statement or Clause appends it and changes no other position
C4_AddElement ==
  last.op = "add_element" =>
    IF last.arg.t = "ref"
         /\ last.pre[last.arg.v].cls \in {"Statement", "Clause", "ACL"}
    THEN /\ exc = "none"
         /\ Len(Now) = Len(Before) + 1
         /\ Now[Len(Now)] = last.arg.v
         /\ \A i \in 1..Len(Before) : Now[i] = Before[i]
    ELSE /\ exc = "TypeError"
         /\ Now = Before

\* Scenario E: a plain string is refused by a container that has children
C4_Witness ==
  /\ last.op = "add_element"
  /\ last.arg = Str("type")
  /\ exc = "TypeError"
  /\ Len(Now) = 2

\* C5: remove_elements(label) removes the direct children with that label
\* and no other, keeps the order of the rest, and touches no other container
C5_RemoveElements ==
  last.op = "remove_elements" =>
    LET Kept == {i \in 1..Len(Before) :
                   last.pre[Before[i]].label /= last.arg}
    IN /\ exc = "none"
       /\ Now = Selected(Before, Kept)
       /\ \A i \in 1..Len(Now) : heap[Now[i]].label /= last.arg
       /\ (Kept = 1..Len(Before)) => Now = Before
       /\ OthersUntouched

\* the statement labelled type is removed from between two other children
\* and stays in the child clause
C5_Witness ==
  /\ last.op = "remove_elements"
  /\ last.self = 1
  /\ last.arg = Str("type")
  /\ Before = <<4, 2, 3>>
  /\ Now = <<4, 3>>
  /\ heap[3].elements = <<2>>

\* C6: get_elements(label) returns the direct children with that label in
\* their order and changes nothing
C6_GetElements ==
  last.op = "get_elements" =>
    LET Hits == {i \in 1..Len(Now) : heap[Now[i]].label = last.arg}
    IN /\ exc = "none"
       /\ result = Selected(Now, Hits)
       /\ heap = last.pre

\* two of three direct children match; the clause's own child is not returned
C6_Witness ==
  /\ last.op = "get_elements"
  /\ last.self = 1
  /\ last.arg = Str("zone")
  /\ Now = <<3, 2, 4>>
  /\ heap[3].elements = <<4, 2>>
  /\ result = <<3, 4>>

\* C7: get_elements(L) right after remove_elements(L) is empty, and
\* get_elements(e.label) right after a successful add_element(e) ends with e
C7_RemoveThenGet ==
  /\ (last.op = "get_elements" /\ last.follows = "remove_elements") =>
       result = <<>>
  /\ (last.op = "get_elements" /\ last.follows = "add_element") =>
       /\ result /= <<>>
       /\ result[Len(result)] = last.added

\* the label was removed from a list that held it twice
C7_Witness ==
  /\ last.op = "get_elements"
  /\ last.follows = "remove_elements"
  /\ last.arg = Str("zone")
  /\ Now = <<2>>
  /\ result = <<>>

(***************************************************************************)
(* The masters specification: a BIND configuration with an acl, a view, a  *)
(* slave zone and two masters clauses, one without and one with a port.    *)
(* The client sets the zone's masters clause, writes elements to a stream  *)
(* and writes the configuration to a file.                                 *)
(***************************************************************************)
\* self.add_element(x) for each x of xs, in order
RECURSIVE attach(_, _, _)
attach(h, c, xs) ==
  IF xs = <<>> THEN h
  ELSE attach(self_add_element(h, c, Ref(Head(xs))).heap, c, Tail(xs))

\* self.add_master(*a) for each a of as, in order
RECURSIVE add_masters(_, _, _)
add_masters(h, c, as) ==
  IF as = <<>> THEN h
  ELSE add_masters(add_master(h, c, Head(as)[1], Head(as)[2], Head(as)[3]).heap,
                   c, Tail(as))

\* 1 the configuration, 2 an acl, 3 a view, 4 Masters(), 5 Masters(port=5353),
\* 6 the zone with 7 its type and 8 its file statement
MastersPool ==
  Zone(<< BINDConf,
          ACL("internal", Tuple(<<Str("10.0.0.0/8")>>), None),
          View(Str("internal"), Str("IN"), None),
          Masters(None, None),
          Masters(PyInt(5353), None) >>,
       Str("example.com"), Str("slave"), Str("slave/example.com.hosts"),
       Str("IN"), None).heap

\* the add_master calls made on both masters clauses
MasterLists ==
  { <<>>,
    << <<Str("192.168.1.1"), None, None>> >>,
    << <<Str("192.168.1.1"), None, None>>,
       <<Str("192.168.1.2"), PyInt(5353), Str("tsig")>> >> }

\* the children of the configuration and of the view
MastersShapes ==
  { << <<2, 3>>, <<6>> >>, << <<3, 2>>, <<6>> >>, << <<3>>, <<6, 6>> >>,
    << <<2>>, <<>> >>, << <<4>>, <<>> >>, << <<2, 5>>, <<>> >>,
    << <<2, 4, 2>>, <<>> >> }

MastersArgs == {Ref(4), Ref(5), Str("masters")}

InitMasters ==
  /\ \E as \in MasterLists, sh \in MastersShapes :
       heap = attach(attach(add_masters(add_masters(MastersPool, 4, as), 5, as),
                            1, sh[1]),
                     3, sh[2])
  /\ fh = ""
  /\ files \in [Paths -> {None, Str("old;\n")}]
  /\ handle = "none"
  /\ result = <<>>
  /\ exc = "none"
  /\ last = NoCall

\* Zone.set_masters
SetMasters(z, m) ==
  /\ heap[z].cls = "Zone"
  /\ LET r == set_masters(heap, z, m)
     IN /\ heap' = r.heap
        /\ exc' = r.exc
  /\ fh' = ""
  /\ result' = <<>>
  /\ last' = Call("set_masters", z, m, 0)
  /\ UNCHANGED <<files, handle>>

NextMasters ==
  \/ \E z \in Objs, m \in MastersArgs : SetMasters(z, m)
  \/ \E o \in Objs, n \in 0..MaxIndent : Write(o, n)
  \/ \E o \in Objs, p \in Paths : WriteFile(o, p)

SpecMasters == InitMasters /\ [][NextMasters]_vars

\* the positions of a child list whose element raises when it is written
Failing(elems) ==
  {k \in 1..Len(elems) : write(heap, elems[k], "", 0).exc /= "none"}

\* C11: write_file leaves the file handle closed whether the rendering
\* finished or an element raised; the element's error is the error of the
\* call, and the file keeps what was written before it
C11_HandleClosed ==
  last.op = "write_file" =>
    LET tops == heap[last.self].elements
    IN /\ handle = "closed"
       /\ IF Failing(tops) = {}
          THEN /\ exc = "none"
               /\ files[last.arg.v] = Str(Renderings(tops, 0))
          ELSE LET k == Kth(Failing(tops), 1)
                   st == write(heap, tops[k], "", 0)
               IN /\ exc = st.exc
                  /\ files[last.arg.v] =
                       Str(Renderings(SubSeq(tops, 1, k - 1), 0) \o st.text)

\* the zone's masters clause raises at depth 2, after the acl and the zone's
\* two statements were written
C11_Witness ==
  /\ last.op = "write_file"
  /\ exc = "TypeError"
  /\ handle = "closed"
  /\ files[last.arg.v] =
       Str("acl \"internal\" {\n\t10.0.0.0/8;\n};\nview \"internal\" IN {\n\tzone \"example.com\" IN {\n\t\ttype slave;\n\t\tfile \"slave/example.com.hosts\";\n\t\tmasters")

\* C19: a Masters clause constructed without a port is written without an
\* error as  masters {,  its children at indent+1, and  };
C19_MastersWithoutPort ==
  (/\ last.op = "write"
   /\ heap[last.self].cls = "Masters"
   /\ heap[last.self].additional /= Tuple(<<Str("port"), PyInt(5353)>>)) =>
    /\ exc = "none"
    /\ fh = Indent(last.indent) \o "masters {\n"
              \o Renderings(heap[last.self].elements, last.indent + 1)
              \o Indent(last.indent) \o "};\n"

(***************************************************************************)
(* The zone specification: a view, two masters clauses and a zone.  The    *)
(* client has attached some of the elements a second time with             *)
(* add_element, so that a setter finds its label absent, present once or   *)
(* present more than once; it constructs zones and calls the setters of    *)
(* the zones and of the view.                                              *)
(***************************************************************************)
\* the objects a behaviour may construct
MaxObjs == 10

Types == {None, Str("slave")}
Files == {None, Str("example.com.hosts")}
AddressLists == {Tuple(<<>>), Tuple(<<Str("192.168.1.1"), Str("192.168.1.2")>>)}

\* 1 the view, 2 Masters(), 3 Masters(port=5353), 4 a match-destinations
\* statement, 5 the zone with 6 its type and 7 its file statement
ZonePool ==
  Zone(<< View(Str("example_view"), Str("IN"), None),
          Masters(None, None),
          Masters(PyInt(5353), None),
          Statement(Str("match-destinations"), None, Tuple(<<Str("any")>>),
                    None) >>,
       Str("example.com"), Str("master"), Str("example.com.hosts"),
       Str("IN"), None).heap

\* what add_element has attached to the view, and to the zone after its
\* type and file statements
ZoneShapes ==
  { << <<>>, <<>> >>, << <<4>>, <<6>> >>, << <<4, 5, 4>>, <<2, 3>> >>,
    << <<5>>, <<4, 7, 6>> >> }

InitZone ==
  /\ \E sh \in ZoneShapes : heap = attach(attach(ZonePool, 1, sh[1]), 5, sh[2])
  /\ fh = ""
  /\ files = [p \in Paths |-> None]
  /\ handle = "none"
  /\ result = <<>>
  /\ exc = "none"
  /\ last = NoCall

\* a call that changes the heap only
Method(op, self, arg, r) ==
  /\ heap' = r.heap
  /\ exc' = r.exc
  /\ fh' = ""
  /\ result' = <<>>
  /\ last' = Call(op, self, arg, 0)
  /\ UNCHANGED <<files, handle>>

\* z = Zone('example.com', type_, file_)
NewZone(type_, file_) ==
  /\ Len(heap) + 3 <= MaxObjs
  /\ Method("Zone", Len(heap) + 1, Tuple(<<type_, file_>>),
            Zone(heap, Str("example.com"), type_, file_, Str("IN"), None))

SetType(z, type_) ==
  /\ heap[z].cls = "Zone"
  /\ Len(heap) < MaxObjs
  /\ Method("set_type", z, type_, set_type(heap, z, type_))

SetFile(z, file_) ==
  /\ heap[z].cls = "Zone"
  /\ Len(heap) < MaxObjs
  /\ Method("set_file", z, file_, set_file(heap, z, file_))

SetAllowUpdate(z, addresses) ==
  /\ heap[z].cls = "Zone"
  /\ Len(heap) < MaxObjs
  /\ Method("set_allow_update", z, addresses,
            set_allow_update(heap, z, addresses))

SetMatchDestinations(v, addresses) ==
  /\ heap[v].cls = "View"
  /\ Len(heap) < MaxObjs
  /\ Method("set_match_destinations", v, addresses,
            set_match_destinations(heap, v, addresses))

NextZone ==
  \/ \E t \in Types, f \in Files : NewZone(t, f)
  \/ \E z \in Objs, t \in Types : SetType(z, t)
  \/ \E z \in Objs, f \in Files : SetFile(z, f)
  \/ \E z \in Objs, a \in AddressLists : SetAllowUpdate(z, a)
  \/ \E z \in Objs, m \in {Ref(2), Ref(3)} : SetMasters(z, m)
  \/ \E v \in Objs, a \in AddressLists : SetMatchDestinations(v, a)

SpecZone == InitZone /\ [][NextZone]_vars

\* the label a setter owns
SetterLabel ==
  [set_type |-> Str("type"), set_file |-> Str("file"),
   set_allow_update |-> Str("allow-update"), set_masters |-> Str("masters"),
   set_match_destinations |-> Str("match-destinations")]

\* the statement a setter attaches for its argument
Carries(op, arg, o) ==
  CASE op = "set_type" ->
         /\ heap[o].cls = "Statement"
         /\ heap[o].value = Tuple(<<Str(IF arg = None THEN "None" ELSE arg.v)>>)
         /\ heap[o].stanza = List(<<>>)
    [] op = "set_file" ->
         /\ heap[o].cls = "Statement"
         /\ heap[o].value =
              Tuple(<<Str("\"" \o (IF arg = None THEN "None" ELSE arg.v) \o "\"")>>)
         /\ heap[o].stanza = List(<<>>)
    [] op \in {"set_allow_update", "set_match_destinations"} ->
         /\ heap[o].cls = "Statement"
         /\ heap[o].value = Tuple(<<>>)
         /\ heap[o].stanza = List(arg.v)
    [] op = "set_masters" -> o = arg.v

\* the positions of a child list that hold the label
Holding(h, elems, label) == {i \in 1..Len(elems) : h[elems[i]].label = label}

\* C12: after a setter, called on a clause that held its label not at all,
\* once or several times, the clause has exactly one direct child with that
\* label, it carries the arguments of this call, it is the last child, and
\* the children with other labels are the ones before the call, in their
\* order; a constructed Zone has one type and one file child in that way
C12_Singleton ==
  /\ last.op \in DOMAIN SetterLabel =>
       LET L == SetterLabel[last.op]
       IN /\ exc = "none"
          /\ Holding(heap, Now, L) = {Len(Now)}
          /\ Carries(last.op, last.arg, Now[Len(Now)])
          /\ SubSeq(Now, 1, Len(Now) - 1)
               = Selected(Before, (1..Len(Before)) \ Holding(last.pre, Before, L))
          /\ \A o \in 1..Len(last.pre) : o /= last.self => heap[o] = last.pre[o]
  /\ last.op = "Zone" =>
       /\ exc = "none"
       /\ Len(Now) = 2
       /\ heap[Now[1]].label = Str("type")
       /\ Carries("set_type", last.arg.v[1], Now[1])
       /\ heap[Now[2]].label = Str("file")
       /\ Carries("set_file", last.arg.v[2], Now[2])
       /\ \A o \in 1..Len(last.pre) : heap[o] = last.pre[o]

\* set_type on a zone that holds its type statement twice, around the file
\* statement and before a match-destinations statement: both are removed
\* and the new one is placed last
C12_Witness ==
  /\ last.op = "set_type"
  /\ last.arg = Str("slave")
  /\ Before = <<6, 7, 4, 7, 6>>
  /\ Now = <<7, 4, 7, Len(heap)>>
  /\ heap[Len(heap)].value = Tuple(<<Str("slave")>>)

(***************************************************************************)
(* The typed-add specification: a BIND configuration, a view and one       *)
(* element of each kind, which the client passes to the typed add          *)
(* operations of the configuration and of the view.                        *)
(***************************************************************************)
\* 1 the configuration, 2 an acl, 3 a view, 4 a named masters clause, 5 a
\* masters clause, 6 a plain statement, 7 a zone with 8 its type and 9 its
\* file statement
ConfPool ==
  Zone(<< BINDConf,
          ACL("example_acl", Tuple(<<Str("1.1.1.1"), Str("2.2.2.2")>>), None),
          View(Str("example_view"), Str("IN"), None),
          NamedMasters(Str("example_masters"), None, None),
          Masters(PyInt(5353), None),
          Statement(Str("include"), Tuple(<<Str("\"rndc.key\"")>>), None, None) >>,
       Str("example.com"), Str("slave"), Str("example.com.hosts"),
       Str("IN"), Str("This is a comment")).heap

InitConf ==
  /\ heap = ConfPool
  /\ fh = ""
  /\ files = [p \in Paths |-> None]
  /\ handle = "none"
  /\ result = <<>>
  /\ exc = "none"
  /\ last = NoCall

AddAcl(c, x) ==
  /\ heap[c].cls = "BINDConf"
  /\ Len(heap[c].elements) < MaxElems
  /\ Method("add_acl", c, x, add_acl(heap, c, x))

AddNamedMasters(c, x) ==
  /\ heap[c].cls = "BINDConf"
  /\ Len(heap[c].elements) < MaxElems
  /\ Method("add_named_masters", c, x, add_named_masters(heap, c, x))

AddView(c, x) ==
  /\ heap[c].cls = "BINDConf"
  /\ Len(heap[c].elements) < MaxElems
  /\ Method("add_view", c, x, add_view(heap, c, x))

AddZone(v, x) ==
  /\ heap[v].cls = "View"
  /\ Len(heap[v].elements) < MaxElems
  /\ Method("add_zone", v, x, add_zone(heap, v, x))

NextConf ==
  \/ \E c \in Objs, x \in Args : AddAcl(c, x)
  \/ \E c \in Objs, x \in Args : AddNamedMasters(c, x)
  \/ \E c \in Objs, x \in Args : AddView(c, x)
  \/ \E v \in Objs, x \in Args : AddZone(v, x)

SpecConf == InitConf /\ [][NextConf]_vars

\* the class a typed add operation accepts
TypedAdd ==
  [add_acl |-> "ACL", add_named_masters |-> "NamedMasters",
   add_view |-> "View", add_zone |-> "Zone"]

\* C13: a typed add operation given anything but an object of its wrapper
\* type, a statement or clause of another kind included, raises a type
\* error and leaves the child list as it was; given an object of its type it
\* appends it as the last child
C13_TypedAdd ==
  last.op \in DOMAIN TypedAdd =>
    /\ IF last.arg.t = "ref" /\ last.pre[last.arg.v].cls = TypedAdd[last.op]
       THEN /\ exc = "none"
            /\ Now = Append(Before, last.arg.v)
       ELSE /\ exc = "TypeError"
            /\ Now = Before
    /\ OthersUntouched

\* add_view refuses the acl, which add_element would accept, on a
\* configuration that has two children
C13_Witness ==
  /\ last.op = "add_view"
  /\ last.arg = Ref(2)
  /\ exc = "TypeError"
  /\ Now = <<2, 3>>
  /\ heap[3].elements = <<7>>

(***************************************************************************)
(* The construction specification: the client constructs statements with   *)
(* and without a label and attaches them to a configuration.               *)
(***************************************************************************)
\* the statements a behaviour may construct
MaxStatements == 2

\* a positional argument the call leaves out
Absent == [t |-> "absent"]

\* Statement(label, value): the call without the positional argument label
\* does not reach __init__; __init__ stores any label it is given
Statement_init(h, label, value) ==
  IF label = Absent THEN Raised(h, "TypeError")
  ELSE Returned(Append(h, Statement(label, value, None, None)))

CtorLabels == {Absent, Str(""), Str("type")}

InitCtor ==
  /\ heap = <<ISCConf>>
  /\ fh = ""
  /\ files = [p \in Paths |-> None]
  /\ handle = "none"
  /\ result = <<>>
  /\ exc = "none"
  /\ last = NoCall

NewStatement(label, value) ==
  /\ Len(heap) <= MaxStatements
  /\ Method("Statement", Len(heap) + 1, label,
            Statement_init(heap, label, value))

NextCtor ==
  \/ \E l \in CtorLabels, v \in {None, Tuple(<<Str("master")>>)} :
       NewStatement(l, v)
  \/ \E c \in Objs, x \in Args : AddElement(c, x)

SpecCtor == InitCtor /\ [][NextCtor]_vars

\* C14: constructing a Statement with an empty or absent label is rejected,
\* and every Statement attached to a container has a non-empty label
C14_LabelNonEmpty ==
  /\ (last.op = "Statement" /\ last.arg \in {Absent, Str("")}) =>
       /\ exc /= "none"
       /\ heap = last.pre
  /\ \A c \in Confs : \A i \in 1..Len(heap[c].elements) :
       heap[heap[c].elements[i]].cls = "Statement" =>
         heap[heap[c].elements[i]].label /= Str("")

(***************************************************************************)
(* Ownership.                                                              *)
(***************************************************************************)
\* the places where o is held: a container and a position of its child list
Places(o) ==
  {p \in Confs \X (1..Len(heap)) :
     p[2] <= Len(heap[p[1]].elements) /\ heap[p[1]].elements[p[2]] = o}

\* the direct children of the containers in S
ChildrenOf(S) ==
  UNION {{heap[c].elements[i] : i \in 1..Len(heap[c].elements)} :
           c \in S \cap Confs}

\* what is held by S, directly or up to n containers below
RECURSIVE Below(_, _)
Below(S, n) ==
  IF n = 0 THEN {} ELSE ChildrenOf(S) \cup Below(ChildrenOf(S), n - 1)

\* C15: after any sequence of add_element and remove_elements calls every
\* element is held at most once over all child lists, and no clause is
\* among its own descendants
C15_Tree ==
  /\ \A o \in Objs : Cardinality(Places(o)) <= 1
  /\ \A c \in Confs : c \notin Below({c}, Len(heap))

(***************************************************************************)
(* The address specification: a view that has its notify-source and        *)
(* transfer-source statements and a masters clause with one master; the    *)
(* client calls the operations that take an address with valid and         *)
(* invalid address strings.                                                *)
(***************************************************************************)
\* the objects a behaviour of this specification may reach
MaxSources == 7

ValidAddresses == {Str("192.168.1.1"), Str("2001:db8::1")}
InvalidAddresses == {Str("192.168.1.256"), Str("example_masters")}
Ports == {None, PyInt(5353)}
Keys == {None, Str("tsig")}

\* 1 the view, 2 the masters clause, 3 the view's notify-source and 4 its
\* transfer-source statement, 5 the master
SourcePool ==
  add_master(
    set_transfer_source(
      set_notify_source(<< View(Str("example_view"), Str("IN"), None),
                           Masters(PyInt(5353), None) >>,
                        1, Str("3.3.3.3"), None).heap,
      1, Str("3.3.3.3"), None).heap,
    2, Str("1.2.3.4"), None, None).heap

InitSource ==
  /\ heap = SourcePool
  /\ fh = ""
  /\ files = [p \in Paths |-> None]
  /\ handle = "none"
  /\ result = <<>>
  /\ exc = "none"
  /\ last = NoCall

SetNotifySource(c, ip, port) ==
  /\ heap[c].cls \in {"View", "Zone"}
  /\ Len(heap) < MaxSources
  /\ Method("set_notify_source", c, Tuple(<<ip, port>>),
            set_notify_source(heap, c, ip, port))

SetTransferSource(c, ip, port) ==
  /\ heap[c].cls \in {"View", "Zone"}
  /\ Len(heap) < MaxSources
  /\ Method("set_transfer_source", c, Tuple(<<ip, port>>),
            set_transfer_source(heap, c, ip, port))

AddMaster(c, master, port, key) ==
  /\ heap[c].cls \in {"Masters", "NamedMasters"}
  /\ Len(heap) < MaxSources
  /\ Method("add_master", c, Tuple(<<master, port, key>>),
            add_master(heap, c, master, port, key))

NextSource ==
  \/ \E c \in Objs, ip \in ValidAddresses \cup InvalidAddresses, p \in Ports :
       SetNotifySource(c, ip, p)
  \/ \E c \in Objs, ip \in ValidAddresses \cup InvalidAddresses, p \in Ports :
       SetTransferSource(c, ip, p)
  \/ \E c \in Objs, ip \in ValidAddresses \cup InvalidAddresses, p \in Ports,
        k \in Keys : AddMaster(c, ip, p, k)

SpecSource == InitSource /\ [][NextSource]_vars

Whitespace == " \t\n\r"

\* str.lstrip()
RECURSIVE lstrip(_)
lstrip(s) ==
  IF s /= "" /\ Among(SubSeq(s, 1, 1), Whitespace)
  THEN lstrip(SubSeq(s, 2, Len(s))) ELSE s

\* str.rstrip()
RECURSIVE rstrip(_)
rstrip(s) ==
  IF s /= "" /\ Among(SubSeq(s, Len(s), Len(s)), Whitespace)
  THEN rstrip(SubSeq(s, 1, Len(s) - 1)) ELSE s

\* str.strip()
strip(s) == rstrip(lstrip(s))

\* s.find(ch) > -1
find(s, ch) == \E i \in 1..Len(s) : SubSeq(s, i, i) = ch

\* s.endswith(ch)
endswith(s, ch) == s /= "" /\ SubSeq(s, Len(s), Len(s)) = ch

\* s.replace(old, new) for a one-character old
RECURSIVE replace(_, _, _)
replace(s, old, new) ==
  IF s = "" THEN ""
  ELSE (IF SubSeq(s, 1, 1) = old THEN new ELSE SubSeq(s, 1, 1))
         \o replace(SubSeq(s, 2, Len(s)), old, new)

\* ResourceRecord.__init__, called by the class cls
ResourceRecord(cls, name, data, ttl, class_, comment) ==
  [cls |-> cls, name |-> Str(strip(name.v)), data |-> data, ttl |-> ttl,
   class_ |-> class_, comment |-> comment]

\* the loop of __str__ over the lines of the comment
RECURSIVE comment_field(_)
comment_field(lines) ==
  IF lines = <<>> THEN ""
  ELSE "; " \o Head(lines) \o "\n" \o comment_field(Tail(lines))

\* ResourceRecord.__str__
ResourceRecord_str(r) ==
  (IF Truthy(r.comment) THEN comment_field(split(r.comment.v)) ELSE "")
    \o Fmt(r.name)
    \o " " \o (IF Truthy(r.ttl) THEN Fmt(r.ttl) \o " " ELSE "")
    \o Fmt(r.class_) \o " " \o r.cls \o " " \o Fmt(r.data)

\* an SOA.__init__ that appends the dot to every rname that lacks one
SOA_AlwaysDot(name, mname, rname, serial, refresh, retry, expiry, minimum, ttl, comment) ==
  LET r1 == IF ~endswith(rname.v, ".") THEN rname.v \o "." ELSE rname.v
  IN ResourceRecord("SOA", name,
       Str(Fmt(mname) \o " " \o replace(r1, "@", ".") \o " ("
           \o ToString(serial.v) \o " " \o Fmt(refresh) \o " " \o Fmt(retry)
           \o " " \o Fmt(expiry) \o " " \o Fmt(minimum) \o ")"),
       ttl, Str("IN"), comment)

\* SOA.__init__
SOA(name, mname, rname, serial, refresh, retry, expiry, minimum, ttl, comment) ==
  LET r1 == IF find(rname.v, "@") /\ ~endswith(rname.v, ".")
            THEN rname.v \o "." ELSE rname.v
  IN ResourceRecord("SOA", name,
       Str(Fmt(mname) \o " " \o replace(r1, "@", ".") \o " ("
           \o ToString(serial.v) \o " " \o Fmt(refresh) \o " " \o Fmt(retry)
           \o " " \o Fmt(expiry) \o " " \o Fmt(minimum) \o ")"),
       ttl, Str("IN"), comment)

\* NS.__init__
NS(name, name_server, ttl, comment) ==
  ResourceRecord("NS", name, name_server, ttl, Str("IN"), comment)

\* A.__init__ with an address ipaddr.IPv4Address accepts
A(name, address, ttl, comment) ==
  ResourceRecord("A", name, Str(IPAddress(address).str), ttl, Str("IN"),
                 comment)

\* MX.__init__
MX(name, preference, mail_exchanger, ttl, comment) ==
  ResourceRecord("MX", name,
                 Str(ToString(preference.v) \o " " \o Fmt(mail_exchanger)),
                 ttl, Str("IN"), comment)

\* TXT.__init__
TXT(name, text, ttl, comment) ==
  ResourceRecord("TXT", name, Str("\"" \o Fmt(text) \o "\""), ttl, Str("IN"),
                 comment)

(***************************************************************************)
(* The record specification: the client constructs records and takes       *)
(* their text with str().                                                  *)
(***************************************************************************)
\* the records a behaviour may construct
MaxRecords == 1

RecordNames == {Str("host.example.com"), Str(" \texample.com.\n")}
TTLs == {None, PyInt(0), PyInt(666), Str("1h")}
RecordComments == {None, Str("a comment"), Str("a multi-\nline comment")}
RecordClasses == {"NS", "A", "MX", "TXT"}
RNames == {Str("email@example.com"), Str("email@example.com."),
           Str("hostmaster.example.com"), Str("hostmaster.example.com."),
           Str("first@last@example.com")}

InitRecord ==
  /\ heap = <<>>
  /\ fh = ""
  /\ files = [p \in Paths |-> None]
  /\ handle = "none"
  /\ result = <<>>
  /\ exc = "none"
  /\ last = NoCall

\* A(...), NS(...), MX(...) or TXT(...)
NewRecord(cls, name, ttl, comment) ==
  /\ Len(heap) < MaxRecords
  /\ Method(cls, Len(heap) + 1, Tuple(<<name, ttl, comment>>),
       Returned(Append(heap,
         CASE cls = "NS" -> NS(name, Str("ns1.example.com."), ttl, comment)
           [] cls = "A" -> A(name, Str("192.168.1.1"), ttl, comment)
           [] cls = "MX" ->
                MX(name, PyInt(10), Str("mail.example.com."), ttl, comment)
           [] cls = "TXT" -> TXT(name, Str("v=spf1 -all"), ttl, comment))))

\* SOA(name, 'ns1.example.com.', rname, 2012010100, '1h', '30m', '1d', '1h',
\* ttl)
NewSOA(name, rname, ttl) ==
  /\ Len(heap) < MaxRecords
  /\ Method("SOA", Len(heap) + 1, Tuple(<<name, rname, ttl>>),
       Returned(Append(heap,
         SOA(name, Str("ns1.example.com."), rname, PyInt(2012010100),
             Str("1h"), Str("30m"), Str("1d"), Str("1h"), ttl, None))))

\* str(record)
ToStr(o) ==
  /\ o \in Objs
  /\ fh' = ResourceRecord_str(heap[o])
  /\ exc' = "none"
  /\ result' = <<>>
  /\ last' = Call("str", o, None, 0)
  /\ UNCHANGED <<heap, files, handle>>

NextRecord ==
  \/ \E c \in RecordClasses, n \in RecordNames, t \in TTLs,
        k \in RecordComments : NewRecord(c, n, t, k)
  \/ \E n \in RecordNames, r \in RNames, t \in {None, PyInt(999)} :
       NewSOA(n, r, t)
  \/ \E o \in Objs : ToStr(o)

SpecRecord == InitRecord /\ [][NextRecord]_vars

\* s without the whitespace before its first and after its last other
\* character
Stripped(s) ==
  LET Inner == {i \in 1..Len(s) : ~Among(SubSeq(s, i, i), Whitespace)}
  IN IF Inner = {} THEN ""
     ELSE SubSeq(s, Kth(Inner, 1), Kth(Inner, Cardinality(Inner)))

\* the comment lines of a record's text
RecordCommentLines(c) ==
  IF c = None \/ c = Str("") THEN ""
  ELSE Concat([k \in 1..(Cardinality(NewlinesOf(c.v)) + 1) |->
                 "; " \o Piece(c.v \o "\n", k) \o "\n"],
              Cardinality(NewlinesOf(c.v)) + 1)

\* C17: str(record) is '; ' + line + newline for each line of the comment,
\* then  name ttl class TYPE data  separated by single spaces, the name
\* stripped of surrounding whitespace, the ttl and its separator left out
\* when no ttl was given
C17_RecordLine ==
  /\ last.op \in RecordClasses \cup {"SOA"} =>
       heap[last.self].name = Str(Stripped(last.arg.v[1].v))
  /\ last.op = "str" =>
       LET r == heap[last.self]
       IN fh = RecordCommentLines(r.comment) \o r.name.v \o " "
                 \o (IF r.ttl = None THEN ""
                     ELSE (IF r.ttl.t = "int" THEN ToString(r.ttl.v)
                           ELSE r.ttl.v) \o " ")
                 \o "IN " \o r.cls \o " " \o r.data.v

\* every character c of s replaced by d
Replaced(s, c, d) ==
  Concat([i \in 1..Len(s) |->
            IF SubSeq(s, i, i) = c THEN d ELSE SubSeq(s, i, i)], Len(s))

\* C18: the data of an SOA record is  mname rname (serial refresh retry
\* expiry minimum)  with mname unchanged and first; a given rname that
\* contains '@' has every '@' replaced by '.' and one '.' appended if it
\* did not end with '.', a given rname without '@' is unchanged
C18_SOAData ==
  last.op = "SOA" =>
    LET given == last.arg.v[2].v
        HasAt == Occurrences(given, "@") > 0
        rname == IF HasAt
                 THEN Replaced(given, "@", ".")
                        \o (IF SubSeq(given, Len(given), Len(given)) = "."
                            THEN "" ELSE ".")
                 ELSE given
    IN heap[last.self].data
         = Str("ns1.example.com. " \o rname \o " (2012010100 1h 30m 1d 1h)")

\* the address of the unit test: the '@' becomes a dot and a dot is added
C18_Witness ==
  /\ last.op = "SOA"
  /\ last.arg.v[2] = Str("email@example.com")
  /\ heap[last.self].data
       = Str("ns1.example.com. email.example.com. (2012010100 1h 30m 1d 1h)")

(***************************************************************************)
(* The earlier BIND layer (bindconf.py), whose Zone collects its masters   *)
(* in the stanza of one masters statement.  Its Zone.__init__, set_type    *)
(* and set_file are those of the later layer.                              *)
(***************************************************************************)
\* a Zone.add_master that makes a new masters statement in every call
Zone_add_master_NewEachCall(h, z, ip, port, key) ==
  LET master == ip.v \o (IF Truthy(port) THEN " port " \o Fmt(port) ELSE "")
                     \o (IF Truthy(key) THEN " key " \o Fmt(key) ELSE "")
      h1 == add_new_element(h, z, Statement(Str("masters"), None, None, None)).heap
  IN Returned([h1 EXCEPT ![Len(h1)].stanza = List(Append(@.v, Str(master)))])

\* Zone.add_master of bindconf.py: the first masters child, or a new
\* statement when get_elements('masters')[0] raises IndexError, gets the
\* entry appended to its stanza
Zone_add_master(h, z, ip, port, key) ==
  LET master == ip.v \o (IF Truthy(port) THEN " port " \o Fmt(port) ELSE "")
                     \o (IF Truthy(key) THEN " key " \o Fmt(key) ELSE "")
      found == get_elements(h, h[z].elements, Str("masters"))
      h1 == IF found = <<>>
            THEN add_new_element(h, z, Statement(Str("masters"), None, None,
                                                 None)).heap
            ELSE h
      stmt == IF found = <<>> THEN Len(h1) ELSE found[1]
  IN IF "stanza" \notin DOMAIN h1[stmt] THEN Raised(h1, "AttributeError")
     ELSE Returned([h1 EXCEPT ![stmt].stanza = List(Append(@.v, Str(master)))])

\* the add_master calls a behaviour may make
MaxMasters == 3

\* 1 the zone, 2 its type and 3 its file statement
InitLegacy ==
  /\ heap = Zone(<<>>, Str("example.com"), Str("slave"),
                 Str("example.com.hosts"), Str("IN"), None).heap
  /\ fh = ""
  /\ files = [p \in Paths |-> None]
  /\ handle = "none"
  /\ result = <<>>
  /\ exc = "none"
  /\ last = NoCall

\* the stanza entries of the statements elems
RECURSIVE entries(_, _)
entries(h, elems) ==
  IF elems = <<>> THEN 0
  ELSE Len(h[Head(elems)].stanza.v) + entries(h, Tail(elems))

\* Zone.add_master(ip, port, key)
ZoneAddMaster(z, ip, port, key) ==
  /\ heap[z].cls = "Zone"
  /\ entries(heap, get_elements(heap, heap[z].elements, Str("masters")))
       < MaxMasters
  /\ Method("add_master", z, Tuple(<<ip, port, key>>),
            Zone_add_master(heap, z, ip, port, key))

NextLegacy ==
  \E z \in Objs, ip \in {Str("1.2.3.4"), Str("1.2.3.5")}, p \in Ports,
     k \in Keys : ZoneAddMaster(z, ip, p, k)

SpecLegacy == InitLegacy /\ [][NextLegacy]_vars

\* the stanza entry for the arguments of an add_master call
MasterEntry(a) ==
  Str(a[1].v \o (IF a[2] = None THEN "" ELSE " port " \o ToString(a[2].v))
             \o (IF a[3] = None THEN "" ELSE " key " \o a[3].v))

ForwardZone(origin, epochserial, ttl) ==
  [cls |-> "ForwardZone",
   origin |-> IF ~endswith(origin.v, ".") THEN Str(origin.v \o ".") ELSE origin,
   epochserial |-> epochserial, records |-> <<>>, ttl |-> ttl]

\* the loop of _Zone.write_file over the records
RECURSIVE write_records(_, _, _)
write_records(h, s, records) ==
  IF records = <<>> THEN s
  ELSE write_records(h, s \o ResourceRecord_str(h[Head(records)]) \o "\n",
                     Tail(records))

\* _Zone.write_file: the text written to the file opened with mode 'w'
Zone_write_file(h, z) ==
  write_records(h, "$ORIGIN " \o Fmt(h[z].origin) \o "\n"
                     \o "$TTL " \o Fmt(h[z].ttl) \o "\n",
                h[z].records)

\* an add_record that puts the record before the others
add_record_Front(h, z, record) ==
  Returned([Append(h, record) EXCEPT ![z].records = <<Len(h) + 1>> \o @])

\* _Zone.add_record, given the record an add_* method has constructed
add_record(h, z, record) ==
  Returned([Append(h, record) EXCEPT ![z].records = Append(@, Len(h) + 1)])

\* _Zone.add_soa; now is what the clock gives for the default serial number
add_soa(h, z, mname, rname, serial, name, ttl, now) ==
  add_record(h, z,
    SOA(name, mname, rname, IF serial = None THEN now ELSE serial,
        Str("3h"), Str("1h"), Str("2d"), Str("1h"), ttl, None))

\* _Zone.add_ns
add_ns(h, z, name_server, name, ttl) ==
  add_record(h, z, NS(name, name_server, ttl, None))

\* ForwardZone.add_a: ipaddr.IPv4Address raises AddressValueError, a
\* ValueError, for a string that is no version 4 address
add_a(h, z, address, name, ttl) ==
  IF IPAddress(address).version /= 4 THEN Raised(h, "ValueError")
  ELSE add_record(h, z, A(name, address, ttl, None))

\* ForwardZone.add_mx
add_mx(h, z, mail_exchanger, preference, name, ttl) ==
  add_record(h, z, MX(name, preference, mail_exchanger, ttl, None))

\* ForwardZone.add_txt
add_txt(h, z, text, name, ttl) ==
  add_record(h, z, TXT(name, text, ttl, None))

(***************************************************************************)
(* The zone file specification: the client constructs a forward zone, adds *)
(* records to it and writes it to a file that held other text.             *)
(***************************************************************************)
\* the records a behaviour may add to the zone
MaxZoneRecords == 2

Origins == {Str("example.com"), Str("example.com."), Str("")}
ZoneTTLs == {Str("1h"), PyInt(600)}
Clock == {PyInt(2012010100), PyInt(1325376000)}

InitDns ==
  /\ heap = <<>>
  /\ fh = ""
  /\ files = [p \in Paths |-> Str("old;\n")]
  /\ handle = "none"
  /\ result = <<>>
  /\ exc = "none"
  /\ last = NoCall

\* z = ForwardZone(origin, ttl=ttl)
NewForwardZone(origin, ttl) ==
  /\ heap = <<>>
  /\ Method("ForwardZone", 1, Tuple(<<origin, ttl>>),
            Returned(<<ForwardZone(origin, FALSE, ttl)>>))

\* the zones that can take one more record
Open == {z \in Objs : /\ heap[z].cls = "ForwardZone"
                      /\ Len(heap[z].records) < MaxZoneRecords}

AddSOA(z, rname, serial, now) ==
  /\ z \in Open
  /\ Method("add_soa", z, Tuple(<<rname, serial>>),
            add_soa(heap, z, Str("ns1"), rname, serial, Str("@"), None, now))

AddNS(z, name_server, ttl) ==
  /\ z \in Open
  /\ Method("add_ns", z, Tuple(<<name_server, ttl>>),
            add_ns(heap, z, name_server, Str("@"), ttl))

AddA(z, address, name) ==
  /\ z \in Open
  /\ Method("add_a", z, Tuple(<<address, name>>),
            add_a(heap, z, address, name, None))

AddMX(z, mail_exchanger, ttl) ==
  /\ z \in Open
  /\ Method("add_mx", z, Tuple(<<mail_exchanger, ttl>>),
            add_mx(heap, z, mail_exchanger, PyInt(20), Str("@"), ttl))

AddTXT(z, text) ==
  /\ z \in Open
  /\ Method("add_txt", z, Tuple(<<text>>),
            add_txt(heap, z, text, Str("@"), None))

\* z.write_file(p)
ZoneWriteFile(z, p) ==
  /\ z \in Objs
  /\ heap[z].cls = "ForwardZone"
  /\ files' = [files EXCEPT ![p] = Str(Zone_write_file(heap, z))]
  /\ handle' = "closed"
  /\ exc' = "none"
  /\ fh' = ""
  /\ result' = <<>>
  /\ last' = Call("zone_write_file", z, Str(p), 0)
  /\ UNCHANGED heap

NextDns ==
  \/ \E o \in Origins, t \in ZoneTTLs : NewForwardZone(o, t)
  \/ \E z \in Objs, s \in {None, PyInt(2012010100)}, now \in Clock :
       AddSOA(z, Str("hostmaster@example.com"), s, now)
  \/ \E z \in Objs, t \in {None, PyInt(600)} : AddNS(z, Str("ns1"), t)
  \/ \E z \in Objs, a \in {Str("192.168.1.1"), Str("192.168.1.256")} :
       AddA(z, a, Str("ns1"))
  \/ \E z \in Objs, t \in {None, PyInt(600)} : AddMX(z, Str("mail2"), t)
  \/ \E z \in Objs : AddTXT(z, Str("v=spf1 mx ~all"))
  \/ \E z \in Objs, p \in Paths : ZoneWriteFile(z, p)

SpecDns == InitDns /\ [][NextDns]_vars

\* the record type an add_* method constructs
AddsType ==
  [add_soa |-> "SOA", add_ns |-> "NS", add_a |-> "A", add_mx |-> "MX",
   add_txt |-> "TXT"]

\* the entries of a zone file for the records, in their order
RecordEntries(records) ==
  Concat([i \in 1..Len(records) |->
            ResourceRecord_str(heap[records[i]]) \o "\n"], Len(records))

\* C21: a constructed zone's origin is the given origin, with a dot
\* appended only when it did not end with one; an add_* call that returns
\* puts its record after the records added before; write_file leaves in the
\* file exactly '$ORIGIN <origin>\n', '$TTL <ttl>\n' and str(record) + '\n'
\* for each record in that order, whatever the file held before
C21_ZoneFile ==
  /\ last.op = "ForwardZone" =>
       LET given == last.arg.v[1].v
       IN heap[last.self].origin.v
            = IF given /= "" /\ SubSeq(given, Len(given), Len(given)) = "."
              THEN given ELSE given \o "."
  /\ \A z \in Objs : heap[z].cls = "ForwardZone" =>
       SubSeq(heap[z].origin.v, Len(heap[z].origin.v), Len(heap[z].origin.v))
         = "."
  /\ (last.op \in DOMAIN AddsType /\ exc = "none") =>
       /\ heap[last.self].records
            = Append(last.pre[last.self].records, Len(heap))
       /\ Len(heap) = Len(last.pre) + 1
       /\ heap[Len(heap)].cls = AddsType[last.op]
       /\ \A o \in 1..Len(last.pre) : o /= last.self => heap[o] = last.pre[o]
  /\ last.op = "zone_write_file" =>
       LET z == heap[last.self]
       IN /\ exc = "none"
          /\ files[last.arg.v]
               = Str("$ORIGIN " \o z.origin.v \o "\n$TTL "
                     \o (IF z.ttl.t = "int" THEN ToString(z.ttl.v) ELSE z.ttl.v)
                     \o "\n" \o RecordEntries(z.records))

\* the zone example.com with an MX and then an A record, written over a
\* file that held other text
C21_Witness ==
  /\ last.op = "zone_write_file"
  /\ files[last.arg.v]
       = Str("$ORIGIN example.com.\n$TTL 1h\n@ 600 IN MX 20 mail2\nns1 IN A 192.168.1.1\n")

(***************************************************************************)
(* The source statements of a clause (checked in SpecSource)               *)
(***************************************************************************)
\* the labels a source setter chooses from, by address version
SourceLabels ==
  [set_notify_source |-> [v4 |-> Str("notify-source"),
                          v6 |-> Str("notify-source-v6")],
   set_transfer_source |-> [v4 |-> Str("transfer-source"),
                            v6 |-> Str("transfer-source-v6")]]

\* the positions of a child list whose label is not the given one
NotHolding(h, elems, label) ==
  {i \in 1..Len(elems) : h[elems[i]].label /= label}

RecursionLimit == 6

RECURSIVE write_at(_, _, _, _, _)
RECURSIVE write_elements_at(_, _, _, _, _)

\* the loops `for element in self.elements: element.write(fh, ...)`, the
\* calls being made at the given depth
write_elements_at(h, elems, st, indent, depth) ==
  IF elems = <<>> \/ st.exc /= "none" THEN st
  ELSE write_elements_at(h, Tail(elems),
                         write_at(h, Head(elems), st.text, indent, depth),
                         indent, depth)

\* Clause.write, running at the given depth
Clause_write_at(h, o, s, indent, depth) ==
  LET e == h[o]
      s1 == Element_write(e, s, indent)
  IN IF e.additional.t = "None"
     THEN [text |-> s1, exc |-> "TypeError"]
     ELSE LET st == write_elements_at(h, e.elements,
                      [text |-> write_items(s1, e.additional.v) \o " {\n",
                       exc |-> "none"], indent + 1, depth + 1)
          IN IF st.exc /= "none" THEN st
             ELSE [text |-> write_indent(st.text, indent) \o "};\n",
                   exc |-> "none"]

\* element.write(fh, indent) called at the given depth
write_at(h, o, s, indent, depth) ==
  IF depth > RecursionLimit THEN [text |-> s, exc |-> "RuntimeError"]
  ELSE IF IsStatementCls(h[o].cls)
       THEN [text |-> Statement_write(h[o], s, indent), exc |-> "none"]
       ELSE Clause_write_at(h, o, s, indent, depth)

\* ISCConf.write_file, the first call of the chain
write_file_at(h, o) ==
  write_elements_at(h, h[o].elements, [text |-> "", exc |-> "none"], 0, 2)

(***************************************************************************)
(* The nesting specification: a configuration, a statement and two         *)
(* clauses, attached to one another with add_element in one of several     *)
(* ways; the client removes children, writes elements and writes the       *)
(* configuration.                                                          *)
(***************************************************************************)
\* 1 the configuration, 2 a statement, 3 a zone clause, 4 a view clause
NestingPool ==
  << ISCConf,
     Statement(Str("type"), Tuple(<<Str("master")>>), None, None),
     Clause(Str("zone"), Tuple(<<Str("\"example.com.\"")>>), None),
     Clause(Str("view"), Tuple(<<Str("\"example_view\"")>>), None) >>

\* what add_element has attached to the configuration, the zone, the view
NestingShapes ==
  { << <<4>>, <<2>>, <<3>> >>,       \* a tree
    << <<2, 3>>, <<>>, <<>> >>,
    << <<3, 4>>, <<2>>, <<3, 2>> >>, \* the zone and the statement held twice
    << <<3>>, <<2, 3>>, <<>> >>,     \* the zone holds itself
    << <<4>>, <<4>>, <<3>> >>,       \* the zone holds the view that holds it
    << <<2>>, <<3>>, <<>> >> }       \* the zone holds itself, detached

InitNesting ==
  /\ \E sh \in NestingShapes :
       heap = attach(attach(attach(NestingPool, 1, sh[1]), 3, sh[2]), 4, sh[3])
  /\ fh = ""
  /\ files = [p \in Paths |-> None]
  /\ handle = "none"
  /\ result = <<>>
  /\ exc = "none"
  /\ last = NoCall

\* element.write(fh, indent) on a fresh stream
WriteAt(o, indent) ==
  /\ o \in Elements
  /\ LET st == write_at(heap, o, "", indent, 1)
     IN /\ fh' = st.text
        /\ exc' = st.exc
  /\ result' = <<>>
  /\ last' = Call("write", o, None, indent)
  /\ UNCHANGED <<heap, files, handle>>

\* conf.write_file(p)
WriteFileAt(o, p) ==
  /\ IsISCConfCls(heap[o].cls)
  /\ LET st == write_file_at(heap, o)
     IN /\ files' = [files EXCEPT ![p] = Str(st.text)]
        /\ handle' = write_file_handle(st)
        /\ exc' = st.exc
  /\ fh' = ""
  /\ result' = <<>>
  /\ last' = Call("write_file", o, Str(p), 0)
  /\ UNCHANGED heap

NextNesting ==
  \/ \E c \in Objs, l \in Labels : RemoveElements(c, l)
  \/ \E o \in Objs, n \in 0..MaxIndent : WriteAt(o, n)
  \/ \E o \in Objs, p \in Paths : WriteFileAt(o, p)

SpecNesting == InitNesting /\ [][NextNesting]_vars

\* C22: on every structure built with the constructors, add_element and
\* remove_elements, write on an element and write_file on a configuration
\* finish their rendering: no chain of write calls grows until the
\* interpreter ends it
C22_Terminates ==
  last.op \in {"write", "write_file"} => exc /= "RuntimeError"

(***************************************************************************)
(* bindconfig.py, the module with attribute-based clauses: a ZoneClause    *)
(* keeps its masters, allow_update and also_notify entries in lists of     *)
(* strings.                                                                *)
(***************************************************************************)
\* ZoneClause.__init__: an absent or empty list argument gives a new list
ZoneClause(name, type_, file_, notify, masters, allow_update, also_notify) ==
  [cls |-> "ZoneClause", name |-> name, clauses |-> <<>>,
   type |-> type_, file |-> file_, notify |-> notify,
   masters |-> IF Truthy(masters) THEN masters.v ELSE <<>>,
   allow_update |-> IF Truthy(allow_update) THEN allow_update.v ELSE <<>>,
   also_notify |-> IF Truthy(also_notify) THEN also_notify.v ELSE <<>>]

\* '%s port %d' % (ipaddr, int(port))
port_entry(ipaddr, port) ==
  Str(ipaddr.v \o " port "
        \o ToString(IF port.t = "int" THEN port.v ELSE int(port.v)))

\* ZoneClause.add_master
ZoneClause_add_master(h, z, ipaddr, port) ==
  IF port = None
  THEN Returned([h EXCEPT ![z].masters = Append(@, ipaddr)])
  ELSE Returned([h EXCEPT ![z].also_notify =
                            Append(@, port_entry(ipaddr, port))])

\* ZoneClause.add_also_notify
ZoneClause_add_also_notify(h, z, ipaddr, port) ==
  IF port = None
  THEN Returned([h EXCEPT ![z].also_notify = Append(@, ipaddr)])
  ELSE Returned([h EXCEPT ![z].also_notify =
                            Append(@, port_entry(ipaddr, port))])

\* the entries a zone's lists may hold together
MaxEntries == 3

\* the ports a caller passes: none, a number, a number as text
EntryPorts == {None, PyInt(5053), Str("53")}
EntryAddresses == {Str("1.1.1.2"), Str("1.1.1.3")}

\* z = ZoneClause('foo.net'), or z = ZoneClause('bar.com', ...) with lists
InitBindConfig ==
  /\ heap \in
       { << ZoneClause(Str("foo.net"), None, None, None, None, None, None) >>,
         << ZoneClause(Str("bar.com"), Str("master"),
                       Str("\"masters/bar.com\""), Str("explicit"), None,
                       List(<<Str("none")>>),
                       List(<<Str("1.1.1.2 port 5053")>>)) >> }
  /\ fh = ""
  /\ files = [p \in Paths |-> None]
  /\ handle = "none"
  /\ result = <<>>
  /\ exc = "none"
  /\ last = NoCall

\* z.add_master(ipaddr, port)
ZoneClauseAddMaster(z, ipaddr, port) ==
  /\ heap[z].cls = "ZoneClause"
  /\ Len(heap[z].masters) + Len(heap[z].also_notify) < MaxEntries
  /\ Method("add_master", z, Tuple(<<ipaddr, port>>),
            ZoneClause_add_master(heap, z, ipaddr, port))

\* z.add_also_notify(ipaddr, port)
ZoneClauseAddAlsoNotify(z, ipaddr, port) ==
  /\ heap[z].cls = "ZoneClause"
  /\ Len(heap[z].masters) + Len(heap[z].also_notify) < MaxEntries
  /\ Method("add_also_notify", z, Tuple(<<ipaddr, port>>),
            ZoneClause_add_also_notify(heap, z, ipaddr, port))

NextBindConfig ==
  \/ \E z \in Objs, ip \in EntryAddresses, p \in EntryPorts :
       ZoneClauseAddMaster(z, ip, p)
  \/ \E z \in Objs, ip \in EntryAddresses, p \in EntryPorts :
       ZoneClauseAddAlsoNotify(z, ip, p)

SpecBindConfig == InitBindConfig /\ [][NextBindConfig]_vars

\* the list is the list before the call with one entry appended
OneAppended(now, before) ==
  /\ Len(now) = Len(before) + 1
  /\ SubSeq(now, 1, Len(before)) = before

\* C24: ZoneClause.add_master, with a port and without one, appends exactly
\* one entry to the zone's masters list and leaves its also_notify list as
\* it was; add_also_notify appends exactly one entry to also_notify and
\* leaves masters as it was
C24_Frame ==
  LET z == last.self
  IN /\ last.op = "add_master" =>
          /\ OneAppended(heap[z].masters, last.pre[z].masters)
          /\ heap[z].also_notify = last.pre[z].also_notify
     /\ last.op = "add_also_notify" =>
          /\ OneAppended(heap[z].also_notify, last.pre[z].also_notify)
          /\ heap[z].masters = last.pre[z].masters

\* the same for add_master without a port and for add_also_notify
C24_FrameNoPort ==
  (last.op = "add_master" => last.arg.v[2] = None) => C24_Frame

====
